---- MODULE Spec2Model ----
(***************************************************************************)
(* switch-ts: the matching chain of src/src/index.ts (when / chain /       *)
(* match) and its legacy on/otherwise form (src/unnamed/part_000), as a    *)
(* state machine driven by a caller that builds one chain expression.      *)
(***************************************************************************)
EXTENDS Integers, Sequences, FiniteSets, TLC

\* Largest number of condition checks the caller chains before closing.
MaxChecks == 2
\* Longest predicate array handed to isAny / isAll.
MaxPreds == 2
\* Largest number handed to the comparison factories.
MaxNum == 2
\* Largest closed set of cases of an exhaustive isValue chain.
MaxCases == 3
MaxValues == 2
MaxInvocations == 2
MaxDuoChecks == 2
MaxObjects == 3

(***************************************************************************)
(* JavaScript values.  t is the typeof tag, v the payload (a string's      *)
(* payload is the number its text spells, or a character code), ref the    *)
(* identity of an object or function, nan marks the number NaN.            *)
(***************************************************************************)
JsValue(t, v, ref, nan) == [t |-> t, v |-> v, ref |-> ref, nan |-> nan]

Undefined == JsValue("undefined", 0, 0, FALSE)
NumTwo == JsValue("number", 2, 0, FALSE)
StrTwo == JsValue("string", 2, 0, FALSE)
NaNValue == JsValue("number", 0, 0, TRUE)
ObjA == JsValue("object", 7, 1, FALSE)
ObjB == JsValue("object", 7, 2, FALSE)
StrA == JsValue("string", 65, 0, FALSE)
StrB == JsValue("string", 66, 0, FALSE)
FnA == JsValue("function", 65, 3, FALSE)
ErrProducer == JsValue("error", 1, 4, FALSE)
ErrPredicate == JsValue("error", 2, 5, FALSE)

\* The subjects handed to when().
Subjects == {NumTwo, StrTwo, NaNValue, ObjA, ObjB}
\* The expected values handed to isValue.
Expecteds == {NumTwo, StrTwo, NaNValue, ObjA}
\* The literal results handed to isValue.
Literals == {StrA, StrB, FnA}

\* JavaScript's == in place of ===: primitives of different types are coerced.
LooseEq(a, b) ==
  /\ ~a.nan /\ ~b.nan
  /\ IF a.t \in {"object", "function", "error"} \/ b.t \in {"object", "function", "error"}
     THEN a.ref = b.ref
     ELSE a.v = b.v

\* JavaScript's === on two values.
StrictEq(a, b) ==
  /\ a.t = b.t
  /\ ~a.nan /\ ~b.nan
  /\ IF a.t \in {"object", "function", "error"} THEN a.ref = b.ref ELSE a.v = b.v

(***************************************************************************)
(* The leaf utilities: exhaustive and the ordered comparison factories.    *)
(***************************************************************************)
BigTen == JsValue("bigint", 10, 0, FALSE)
ErrUnhandled == JsValue("error", 4, 8, FALSE)
ErrSerialize == JsValue("error", 5, 9, FALSE)

\* JSON.stringify(value): the text it returns, or the TypeError it throws.
JsonStringify(value) ==
  CASE value.t = "bigint" -> [threw |-> TRUE, text |-> [form |-> "none", of |-> Undefined]]
    [] value.t \in {"undefined", "function"} ->
         [threw |-> FALSE, text |-> [form |-> "undefined", of |-> value]]
    [] value.t = "number" /\ value.nan ->
         [threw |-> FALSE, text |-> [form |-> "null", of |-> value]]
    [] value.t = "number" -> [threw |-> FALSE, text |-> [form |-> "numeral", of |-> value]]
    [] value.t = "string" -> [threw |-> FALSE, text |-> [form |-> "quoted", of |-> value]]
    [] OTHER -> [threw |-> FALSE, text |-> [form |-> "braces", of |-> value]]

\* throw new Error(`Unhandled case: ${JSON.stringify(value)}`)
exhaustive(value) ==
  LET s == JsonStringify(value)
  IN IF s.threw
     THEN [threw |-> TRUE, val |-> ErrSerialize,
           message |-> [prefix |-> "Do not know how to serialize a BigInt", text |-> s.text]]
     ELSE [threw |-> TRUE, val |-> ErrUnhandled,
           message |-> [prefix |-> "Unhandled case: ", text |-> s.text]]

\* JavaScript's > < >= <= on two numbers or two one-character strings: false
\* when either side is NaN.
JsGt(a, b) == ~a.nan /\ ~b.nan /\ a.v > b.v
JsLt(a, b) == ~a.nan /\ ~b.nan /\ a.v < b.v
JsGe(a, b) == ~a.nan /\ ~b.nan /\ a.v >= b.v
JsLe(a, b) == ~a.nan /\ ~b.nan /\ a.v <= b.v

\* gt with the operands of the legacy variant: threshold > value.
gt_LegacyOrder(threshold, value) == JsGt(threshold, value)

\* gt(threshold)(value), lt(threshold)(value), ge(...)(...), le(...)(...).
gt(threshold, value) == JsGt(value, threshold)
lt(threshold, value) == JsLt(value, threshold)
ge(threshold, value) == JsGe(value, threshold)
le(threshold, value) == JsLe(value, threshold)

\* eq with JavaScript's == in place of ===.
eq_Loose(expected, actual) == LooseEq(expected, actual)

\* eq(expected)(actual), ne(expected)(actual).
eq(expected, actual) == StrictEq(expected, actual)
ne(expected, actual) == ~StrictEq(expected, actual)

\* between with both endpoints left out.
between_Exclusive(min, max, value) == JsGt(value, min) /\ JsLt(value, max)

\* between(min, max)(value).
between(min, max, value) == JsGe(value, min) /\ JsLe(value, max)

\* betweenExclusive with both endpoints let in.
betweenExclusive_Inclusive(min, max, value) == JsGe(value, min) /\ JsLe(value, max)

\* betweenExclusive(min, max)(value).
betweenExclusive(min, max, value) == JsGt(value, min) /\ JsLt(value, max)

\* The equality of Array.prototype.includes: === except that NaN is NaN.
SameValueZero(a, b) == StrictEq(a, b) \/ (a.t = "number" /\ a.nan /\ b.t = "number" /\ b.nan)

\* values.includes(value).
Includes(values, value) == \E i \in 1..Len(values) : SameValueZero(values[i], value)

\* oneOf as values.some((x) => x === value).
oneOf_StrictEq(values, value) == \E i \in 1..Len(values) : StrictEq(values[i], value)

\* oneOf(values)(value), noneOf(values)(value).
oneOf(values, value) == Includes(values, value)
noneOf(values, value) == ~Includes(values, value)

(***************************************************************************)
(* Caller-supplied functions.  A predicate answers "true", "false" or      *)
(* "throw"; a producer returns a value or throws.                          *)
(***************************************************************************)
Predicates == {"always", "isTwo", "isString", "boom"}

PredApply(p, v) ==
  CASE p = "always" -> "true"
    [] p = "isTwo" -> IF StrictEq(v, NumTwo) THEN "true" ELSE "false"
    [] p = "isString" -> IF v.t = "string" THEN "true" ELSE "false"
    [] p = "boom" -> "throw"

Producer(kind, ret) == [kind |-> kind, ret |-> ret]
ThenA == Producer("const", StrA)
ThenB == Producer("const", StrB)
Echo == Producer("echo", Undefined)
Boom == Producer("throw", ErrProducer)

\* () => R producers, and (value: U) => R producers of isType.
Producers == {ThenA, ThenB, Boom}
NarrowProducers == {Echo, ThenA, Boom}

\* Calling producer f with argument arg (Undefined when called with none).
Invoke(f, arg) ==
  CASE f.kind = "const" -> [threw |-> FALSE, val |-> f.ret]
    [] f.kind = "echo" -> [threw |-> FALSE, val |-> arg]
    [] f.kind = "throw" -> [threw |-> TRUE, val |-> f.ret]
    [] f.kind = "exhaustive" -> [threw |-> TRUE, val |-> exhaustive(f.ret).val]

(***************************************************************************)
(* Events: the caller-supplied functions a call invoked, in order.         *)
(***************************************************************************)
PredEvent(i, v) == [e |-> "pred", i |-> i, arg |-> v]
ProducerEvent(arg) == [e |-> "producer", i |-> 0, arg |-> arg]

PredEvents(n, v) == [i \in 1..n |-> PredEvent(i, v)]

VARIABLES pc, variant, subject, cursor, nchecks, last, events, invoked,
          outcome, hits, firstHit, pure, duo, heap

vars == <<pc, variant, subject, cursor, nchecks, last, events, invoked,
          outcome, hits, firstHit, pure, duo, heap>>

\* The state of the chain expression that Spec drives.
chainVars == <<pc, variant, subject, cursor, nchecks, last, events, invoked,
               outcome, hits, firstHit>>

(***************************************************************************)
(* Cursors.  when(value) is the initial cursor, chain(value) the unmatched *)
(* cursor, match(value) the matched cursor carrying its result.            *)
(***************************************************************************)
\* when() returning the cursor that chain() builds.
when_AsChain(value) == [tag |-> "unmatched", value |-> value]

NoCursor == [tag |-> "none", value |-> Undefined]
when(value) == [tag |-> "initial", value |-> value]
chain(value) == [tag |-> "unmatched", value |-> value]
match(value) == [tag |-> "matched", value |-> value]

\* What a call did: the cursor (or value) it returned, or the error it threw.
Returned(c, evs) == [threw |-> FALSE, cursor |-> c, val |-> Undefined, events |-> evs]
ReturnedValue(v, evs) == [threw |-> FALSE, cursor |-> NoCursor, val |-> v, events |-> evs]
Threw(err, evs) == [threw |-> TRUE, cursor |-> NoCursor, val |-> err, events |-> evs]

\* predicate(value): one call of a caller-supplied predicate or guard.
CallPred(p, v) == [out |-> PredApply(p, v), events |-> <<PredEvent(1, v)>>]

\* predicates.some((pred) => pred(value)): in order, stops at the first true.
RECURSIVE SomeFrom(_, _, _)
SomeFrom(preds, i, v) ==
  IF i > Len(preds) THEN [out |-> "false", events |-> PredEvents(Len(preds), v)]
  ELSE LET c == PredApply(preds[i], v)
       IN IF c = "false" THEN SomeFrom(preds, i + 1, v)
          ELSE [out |-> c, events |-> PredEvents(i, v)]

\* predicates.map((pred) => pred(value)).includes(true): every predicate is
\* called before the outcomes are looked at.
Some_EvaluatesAll(preds, v) ==
  [out |-> IF \E i \in 1..Len(preds) : PredApply(preds[i], v) = "throw" THEN "throw"
           ELSE IF \E i \in 1..Len(preds) : PredApply(preds[i], v) = "true" THEN "true"
           ELSE "false",
   events |-> PredEvents(Len(preds), v)]

Some(preds, v) == SomeFrom(preds, 1, v)

\* predicates.every((pred) => pred(value)): in order, stops at the first false.
RECURSIVE EveryFrom(_, _, _)
EveryFrom(preds, i, v) ==
  IF i > Len(preds) THEN [out |-> "true", events |-> PredEvents(Len(preds), v)]
  ELSE LET c == PredApply(preds[i], v)
       IN IF c = "true" THEN EveryFrom(preds, i + 1, v)
          ELSE [out |-> c, events |-> PredEvents(i, v)]

\* predicates.some written where predicates.every is meant.
EveryAsSome(preds, v) == SomeFrom(preds, 1, v)

Every(preds, v) == EveryFrom(preds, 1, v)

(***************************************************************************)
(* The logical combinators and the producer helper.                        *)
(***************************************************************************)
\* all with predicates.some in place of predicates.every.
all_AsAny(predicates, value) == SomeFrom(predicates, 1, value).out

\* all(predicates)(value): "true", "false", or "throw" when a predicate that
\* is reached throws.
all(predicates, value) == Every(predicates, value).out

\* any with predicates.every in place of predicates.some.
any_AsAll(predicates, value) == EveryFrom(predicates, 1, value).out

\* any(predicates)(value).
any(predicates, value) == Some(predicates, value).out

\* A caller's predicate as the function (value: T) => boolean it is.
PredicateValues == {NumTwo, StrTwo, ObjA}
PredicateFn(p) == [v \in PredicateValues |-> PredApply(p, v)]

\* !x of a predicate's outcome; a throw stays a throw.
JsNot(x) == CASE x = "true" -> "false" [] x = "false" -> "true" [] OTHER -> x

\* not that hands the predicate back as it is.
not_Identity(predicate) == predicate

\* not(predicate): the function (value) => !predicate(value).
not(predicate) == [v \in DOMAIN predicate |-> JsNot(predicate[v])]

\* then that returns the producer's argument.
then_Echo(value) == Echo

\* then(value): the producer () => value.
then(value) == Producer("const", value)

\* The ternary inside a try/catch that takes a throwing predicate for false.
Ternary_CatchesPredicate(cond, producer, arg, value) ==
  IF cond.out = "true"
  THEN LET r == Invoke(producer, arg)
           evs == cond.events \o <<ProducerEvent(arg)>>
       IN IF r.threw THEN Threw(r.val, evs) ELSE Returned(match(r.val), evs)
  ELSE Returned(chain(value), cond.events)

\* The ternary carrying the producer itself, to be run when the chain closes.
Ternary_DefersProducer(cond, producer, arg, value) ==
  IF cond.out = "throw" THEN Threw(ErrPredicate, cond.events)
  ELSE IF cond.out = "true" THEN Returned(match(FnA), cond.events)
  ELSE Returned(chain(value), cond.events)

\* cond ? match(producer(arg)) : chain(value), cond already evaluated.
Ternary(cond, producer, arg, value) ==
  IF cond.out = "throw" THEN Threw(ErrPredicate, cond.events)
  ELSE IF cond.out = "true"
       THEN LET r == Invoke(producer, arg)
                evs == cond.events \o <<ProducerEvent(arg)>>
            IN IF r.threw THEN Threw(r.val, evs) ELSE Returned(match(r.val), evs)
       ELSE Returned(chain(value), cond.events)

(***************************************************************************)
(* The methods of the matched cursor: match(value).                        *)
(***************************************************************************)
\* A matched cursor whose is() runs the new producer and carries its result.
match_is_LastWins(value, predicate, producer) ==
  Ternary([out |-> "true", events |-> <<>>], producer, Undefined, value)

\* A matched cursor whose isValue() carries the new literal.
match_isValue_Overwrites(value, expectedValue, result) == Returned(match(result), <<>>)

\* A matched cursor whose isAll() has the body of the unmatched cursor's.
match_isAll_Reevaluates(value, predicates, producer) ==
  Ternary(Every(predicates, value), producer, Undefined, value)

\* A matched cursor whose otherwise() has the body of the unmatched cursor's.
match_otherwise_CallsFallback(value, producer) ==
  LET r == Invoke(producer, Undefined)
  IN IF r.threw THEN Threw(r.val, <<ProducerEvent(Undefined)>>)
     ELSE ReturnedValue(r.val, <<ProducerEvent(Undefined)>>)

\* A matched cursor whose isType() applies the guard to the carried result.
match_isType_Renarrows(value, guard, producer) ==
  Ternary(CallPred(guard, value), producer, value, value)

\* A matched cursor whose is() still calls the predicate, on the carried result.
match_is_Reevaluates(value, predicate, producer) ==
  LET c == CallPred(predicate, value)
  IN IF c.out = "throw" THEN Threw(ErrPredicate, c.events)
     ELSE Returned(match(value), c.events)

match_is(value, predicate, producer) == Returned(match(value), <<>>)
match_isValue(value, expectedValue, result) == Returned(match(value), <<>>)
match_isType(value, guard, producer) == Returned(match(value), <<>>)
match_isAny(value, predicates, producer) == Returned(match(value), <<>>)
match_isAll(value, predicates, producer) == Returned(match(value), <<>>)
match_otherwise(value, producer) == ReturnedValue(value, <<>>)

(***************************************************************************)
(* The methods of the unmatched cursor: chain(value).                      *)
(***************************************************************************)
\* is() that runs the producer before it tests the predicate.
chain_is_Eager(value, predicate, producer) ==
  LET r == Invoke(producer, Undefined)
      c == CallPred(predicate, value)
      evs == <<ProducerEvent(Undefined)>> \o c.events
  IN IF r.threw THEN Threw(r.val, <<ProducerEvent(Undefined)>>)
     ELSE IF c.out = "throw" THEN Threw(ErrPredicate, evs)
     ELSE IF c.out = "true" THEN Returned(match(r.val), evs)
     ELSE Returned(chain(value), evs)

\* isValue() that treats its result as a producer when it is callable.
chain_isValue_CallsResult(value, expectedValue, result) ==
  IF StrictEq(value, expectedValue)
  THEN IF result.t = "function"
       THEN Returned(match(JsValue("string", result.v, 0, FALSE)), <<ProducerEvent(Undefined)>>)
       ELSE Returned(match(result), <<>>)
  ELSE Returned(chain(value), <<>>)

\* isType() that calls its producer without the narrowed value.
chain_isType_NoArgument(value, guard, producer) ==
  Ternary(CallPred(guard, value), producer, Undefined, value)

\* otherwise() that has the body of the matched cursor's.
chain_otherwise_ReturnsValue(value, producer) == ReturnedValue(value, <<>>)

\* isAny() with the body of isAll().
chain_isAny_UsesEvery(value, predicates, producer) ==
  Ternary(Every(predicates, value), producer, Undefined, value)

\* otherwise() that raises an error of its own instead of calling the fallback.
chain_otherwise_Raises(value, producer) ==
  Threw(JsValue("error", 3, 6, FALSE), <<>>)

\* isValue() whose unmatched cursor carries the expected value.
chain_isValue_CarriesExpected(value, expectedValue, result) ==
  IF StrictEq(value, expectedValue) THEN Returned(match(result), <<>>)
  ELSE Returned(chain(expectedValue), <<>>)

\* isAll() that does not match over the empty array.
chain_isAll_NonEmpty(value, predicates, producer) ==
  IF predicates = <<>> THEN Returned(chain(value), <<>>)
  ELSE Ternary(Every(predicates, value), producer, Undefined, value)

\* isValue() that compares as Array.prototype.includes does: NaN matches NaN.
chain_isValue_SameValueZero(value, expectedValue, result) ==
  IF SameValueZero(value, expectedValue) THEN Returned(match(result), <<>>)
  ELSE Returned(chain(value), <<>>)

\* otherwise() that keeps the first result it gave in a module-level
\* variable and hands it out again to every later chain.
chain_otherwise_Memoized(value, producer) ==
  IF duo[1].pc = "done" THEN ReturnedValue(duo[1].val, <<>>)
  ELSE LET r == Invoke(producer, Undefined)
       IN IF r.threw THEN Threw(r.val, <<ProducerEvent(Undefined)>>)
          ELSE ReturnedValue(r.val, <<ProducerEvent(Undefined)>>)

chain_is(value, predicate, producer) ==
  Ternary(CallPred(predicate, value), producer, Undefined, value)

chain_isValue(value, expectedValue, result) ==
  IF StrictEq(value, expectedValue) THEN Returned(match(result), <<>>)
  ELSE Returned(chain(value), <<>>)

chain_isType(value, guard, producer) ==
  Ternary(CallPred(guard, value), producer, value, value)

chain_isAny(value, predicates, producer) ==
  Ternary(Some(predicates, value), producer, Undefined, value)

chain_isAll(value, predicates, producer) ==
  Ternary(Every(predicates, value), producer, Undefined, value)

chain_otherwise(value, producer) ==
  LET r == Invoke(producer, Undefined)
  IN IF r.threw THEN Threw(r.val, <<ProducerEvent(Undefined)>>)
     ELSE ReturnedValue(r.val, <<ProducerEvent(Undefined)>>)

(***************************************************************************)
(* The methods of the initial cursor: when(value).                         *)
(***************************************************************************)
when_is(value, predicate, producer) ==
  Ternary(CallPred(predicate, value), producer, Undefined, value)

when_isValue(value, expectedValue, result) ==
  IF StrictEq(value, expectedValue) THEN Returned(match(result), <<>>)
  ELSE Returned(chain(value), <<>>)

when_isType(value, guard, producer) ==
  Ternary(CallPred(guard, value), producer, value, value)

when_isAny(value, predicates, producer) ==
  Ternary(Some(predicates, value), producer, Undefined, value)

\* The initial cursor's isAll() with predicates.some in place of every.
when_isAll_UsesSome(value, predicates, producer) ==
  Ternary(Some(predicates, value), producer, Undefined, value)

when_isAll(value, predicates, producer) ==
  Ternary(Every(predicates, value), producer, Undefined, value)

(***************************************************************************)
(* The legacy variant: when(value).on(...)...otherwise(...).               *)
(***************************************************************************)
legacy_match_on(value, prediction, producer) == Returned(match(value), <<>>)
legacy_match_otherwise(value, producer) == ReturnedValue(value, <<>>)

legacy_chain_on(value, prediction, producer) ==
  Ternary(CallPred(prediction, value), producer, Undefined, value)

legacy_chain_otherwise(value, producer) ==
  LET r == Invoke(producer, Undefined)
  IN IF r.threw THEN Threw(r.val, <<ProducerEvent(Undefined)>>)
     ELSE ReturnedValue(r.val, <<ProducerEvent(Undefined)>>)

legacy_when_on(value, prediction, producer) ==
  Ternary(CallPred(prediction, value), producer, Undefined, value)

\* The legacy gt with the operands of the current library: value2 > value1.
legacy_gt_CurrentOrder(value1, value2) == gt(value1, value2)

\* gt(value1)(value2), lt(value1)(value2), ge(...)(...), le(...)(...) of the
\* legacy variant.
legacy_gt(value1, value2) == JsGt(value1, value2)
legacy_lt(value1, value2) == JsLt(value1, value2)
legacy_ge(value1, value2) == JsGe(value1, value2)
legacy_le(value1, value2) == JsLe(value1, value2)

(***************************************************************************)
(* The caller.  last records the most recent call and the cursor it was    *)
(* made on; events the caller-supplied functions that call invoked;        *)
(* invoked the checks whose producer has run so far (0: the fallback).     *)
(* hits and firstHit keep, of the checks called so far, how many have a    *)
(* condition that holds of the subject, and the earliest of them.          *)
(***************************************************************************)
NoProducer == Producer("none", Undefined)

Call(op, preds, expected, literal, producer) ==
  [op |-> op, preds |-> preds, expected |-> expected, literal |-> literal,
   producer |-> producer, before |-> cursor]

NoCall == [op |-> "none", preds |-> <<>>, expected |-> Undefined,
           literal |-> Undefined, producer |-> NoProducer, before |-> NoCursor]

NoHit == [idx |-> 0, op |-> "none", gives |-> [threw |-> FALSE, val |-> Undefined]]

\* The predicate arrays handed to isAny / isAll.
ArrayPredicates == {"isTwo", "isString", "boom"}
PredSeqs == UNION {[1..n -> ArrayPredicates] : n \in 0..MaxPreds}

CheckOps == {"is", "isValue", "isType", "isAny", "isAll", "on"}

\* The match rule of each kind of check, on subject v.
CondHolds(c, v) ==
  CASE c.op \in {"is", "isType", "on"} -> PredApply(c.preds[1], v) = "true"
    [] c.op = "isValue" -> StrictEq(v, c.expected)
    [] c.op = "isAny" ->
         \E i \in 1..Len(c.preds) :
           /\ PredApply(c.preds[i], v) = "true"
           /\ \A j \in 1..(i - 1) : PredApply(c.preds[j], v) = "false"
    [] c.op = "isAll" -> \A i \in 1..Len(c.preds) : PredApply(c.preds[i], v) = "true"
    [] OTHER -> FALSE

\* What a check yields when it is the one that matches subject v.
Gives(c, v) ==
  CASE c.op = "isValue" -> [threw |-> FALSE, val |-> c.literal]
    [] c.op = "isType" -> Invoke(c.producer, v)
    [] OTHER -> Invoke(c.producer, Undefined)

ProducerRuns(evs) == Len(SelectSeq(evs, LAMBDA ev : ev.e = "producer"))

\* pure holds the last application of a leaf utility or of a whole chain
\* expression: the function, its arguments and what it did.
NoPure == [fn |-> "none", args |-> <<>>, out |-> FALSE]

\* Two chain expressions of one program, before either when() call.
NoChain ==
  [pc |-> "start", subject |-> Undefined, cursor |-> NoCursor, checks |-> <<>>,
   fallback |-> NoProducer, threw |-> FALSE, val |-> Undefined, trace |-> <<>>,
   mixed |-> FALSE]
NoDuo == [i \in 1..2 |-> NoChain]

\* The cursor objects one program holds on to, before when() is called, and
\* what the latest call that returned no cursor did.
NoHeap ==
  [subject |-> Undefined, objs |-> <<>>,
   ret |-> [on |-> 0, fallback |-> NoProducer, threw |-> FALSE, val |-> Undefined]]

Init ==
  /\ pc = "start"
  /\ variant = "none"
  /\ subject = Undefined
  /\ cursor = NoCursor
  /\ nchecks = 0
  /\ last = NoCall
  /\ events = <<>>
  /\ invoked = <<>>
  /\ outcome = [kind |-> "none", val |-> Undefined]
  /\ hits = 0
  /\ firstHit = NoHit
  /\ pure = NoPure
  /\ duo = NoDuo
  /\ heap = NoHeap

\* when(value) of the current library.
When ==
  \E v \in Subjects :
    /\ pc = "start"
    /\ pc' = "open"
    /\ variant' = "current"
    /\ subject' = v
    /\ cursor' = when(v)
    /\ UNCHANGED <<nchecks, last, events, invoked, outcome, hits, firstHit, pure, duo, heap>>

\* when(value) of the legacy variant.
LegacyWhen ==
  \E v \in Subjects :
    /\ pc = "start"
    /\ pc' = "open"
    /\ variant' = "legacy"
    /\ subject' = v
    /\ cursor' = when(v)
    /\ UNCHANGED <<nchecks, last, events, invoked, outcome, hits, firstHit, pure, duo, heap>>

\* The caller's view of one condition-check call c that did r.
Checked(c, r) ==
  /\ nchecks' = nchecks + 1
  /\ last' = c
  /\ events' = r.events
  /\ invoked' = invoked \o [i \in 1..ProducerRuns(r.events) |-> nchecks + 1]
  /\ IF r.threw
     THEN /\ pc' = "thrown"
          /\ outcome' = [kind |-> "throw", val |-> r.val]
          /\ UNCHANGED cursor
     ELSE /\ pc' = "open"
          /\ cursor' = r.cursor
          /\ UNCHANGED outcome
  /\ hits' = IF CondHolds(c, subject) THEN hits + 1 ELSE hits
  /\ firstHit' = IF firstHit.idx = 0 /\ CondHolds(c, subject)
                 THEN [idx |-> nchecks + 1, op |-> c.op, gives |-> Gives(c, subject)]
                 ELSE firstHit
  /\ UNCHANGED <<variant, subject, pure, duo, heap>>

\* The caller's view of the terminator call c that did r.
Closed(c, r) ==
  /\ last' = c
  /\ events' = r.events
  /\ invoked' = invoked \o [i \in 1..ProducerRuns(r.events) |-> 0]
  /\ pc' = IF r.threw THEN "thrown" ELSE "done"
  /\ outcome' = [kind |-> IF r.threw THEN "throw" ELSE "return", val |-> r.val]
  /\ UNCHANGED <<variant, subject, cursor, nchecks, hits, firstHit, pure, duo, heap>>

\* An initial cursor that also has the terminator.
HasOtherwise_Always(cur) == cur.tag \in {"initial", "unmatched", "matched"}

\* Chain<T, R> has otherwise, When<T> has not: the cursors match() and
\* chain() build carry the method, the one when() builds does not.
HasOtherwise(cur) == cur.tag \in {"unmatched", "matched"}

CanCheck(v) == pc = "open" /\ variant = v /\ nchecks < MaxChecks

Is ==
  \E p \in Predicates, f \in Producers :
    /\ CanCheck("current")
    /\ Checked(Call("is", <<p>>, Undefined, Undefined, f),
               CASE cursor.tag = "initial" -> when_is(cursor.value, p, f)
                 [] cursor.tag = "unmatched" -> chain_is(cursor.value, p, f)
                 [] cursor.tag = "matched" -> match_is(cursor.value, p, f))

IsValue ==
  \E x \in Expecteds, l \in Literals :
    /\ CanCheck("current")
    /\ Checked(Call("isValue", <<>>, x, l, NoProducer),
               CASE cursor.tag = "initial" -> when_isValue(cursor.value, x, l)
                 [] cursor.tag = "unmatched" -> chain_isValue(cursor.value, x, l)
                 [] cursor.tag = "matched" -> match_isValue(cursor.value, x, l))

IsType ==
  \E g \in Predicates, f \in NarrowProducers :
    /\ CanCheck("current")
    /\ Checked(Call("isType", <<g>>, Undefined, Undefined, f),
               CASE cursor.tag = "initial" -> when_isType(cursor.value, g, f)
                 [] cursor.tag = "unmatched" -> chain_isType(cursor.value, g, f)
                 [] cursor.tag = "matched" -> match_isType(cursor.value, g, f))

IsAny ==
  \E ps \in PredSeqs, f \in Producers :
    /\ CanCheck("current")
    /\ Checked(Call("isAny", ps, Undefined, Undefined, f),
               CASE cursor.tag = "initial" -> when_isAny(cursor.value, ps, f)
                 [] cursor.tag = "unmatched" -> chain_isAny(cursor.value, ps, f)
                 [] cursor.tag = "matched" -> match_isAny(cursor.value, ps, f))

IsAll ==
  \E ps \in PredSeqs, f \in Producers :
    /\ CanCheck("current")
    /\ Checked(Call("isAll", ps, Undefined, Undefined, f),
               CASE cursor.tag = "initial" -> when_isAll(cursor.value, ps, f)
                 [] cursor.tag = "unmatched" -> chain_isAll(cursor.value, ps, f)
                 [] cursor.tag = "matched" -> match_isAll(cursor.value, ps, f))

\* otherwise(producer): only the cursors a check returned have it.
Otherwise ==
  \E f \in Producers :
    /\ pc = "open" /\ variant = "current"
    /\ HasOtherwise(cursor)
    /\ Closed(Call("otherwise", <<>>, Undefined, Undefined, f),
              IF cursor.tag = "matched" THEN match_otherwise(cursor.value, f)
              ELSE chain_otherwise(cursor.value, f))

On ==
  \E p \in Predicates, f \in Producers :
    /\ CanCheck("legacy")
    /\ Checked(Call("on", <<p>>, Undefined, Undefined, f),
               CASE cursor.tag = "initial" -> legacy_when_on(cursor.value, p, f)
                 [] cursor.tag = "unmatched" -> legacy_chain_on(cursor.value, p, f)
                 [] cursor.tag = "matched" -> legacy_match_on(cursor.value, p, f))

LegacyOtherwise ==
  \E f \in Producers :
    /\ pc = "open" /\ variant = "legacy"
    /\ HasOtherwise(cursor)
    /\ Closed(Call("otherwise", <<>>, Undefined, Undefined, f),
              IF cursor.tag = "matched" THEN legacy_match_otherwise(cursor.value, f)
              ELSE legacy_chain_otherwise(cursor.value, f))

Next ==
  \/ When
  \/ LegacyWhen
  \/ Is
  \/ IsValue
  \/ IsType
  \/ IsAny
  \/ IsAll
  \/ Otherwise
  \/ On
  \/ LegacyOtherwise

Spec == Init /\ [][Next]_vars

(***************************************************************************)
(* Whole chain expressions.  A chain expression is a subject, the checks   *)
(* called on it in order and the fallback handed to otherwise; RunChain    *)
(* evaluates it call by call and returns the result or the error, with the *)
(* functions invoked on the way, each tagged with the call that made it.   *)
(***************************************************************************)
Check(op, preds, expected, literal, producer) ==
  [op |-> op, preds |-> preds, expected |-> expected, literal |-> literal,
   producer |-> producer]

\* cursor.is(...), cursor.isValue(...), ...: the method of the cursor's kind.
ApplyCheck(cur, c) ==
  CASE c.op = "is" ->
         (CASE cur.tag = "initial" -> when_is(cur.value, c.preds[1], c.producer)
            [] cur.tag = "unmatched" -> chain_is(cur.value, c.preds[1], c.producer)
            [] cur.tag = "matched" -> match_is(cur.value, c.preds[1], c.producer))
    [] c.op = "isValue" ->
         (CASE cur.tag = "initial" -> when_isValue(cur.value, c.expected, c.literal)
            [] cur.tag = "unmatched" -> chain_isValue(cur.value, c.expected, c.literal)
            [] cur.tag = "matched" -> match_isValue(cur.value, c.expected, c.literal))
    [] c.op = "isType" ->
         (CASE cur.tag = "initial" -> when_isType(cur.value, c.preds[1], c.producer)
            [] cur.tag = "unmatched" -> chain_isType(cur.value, c.preds[1], c.producer)
            [] cur.tag = "matched" -> match_isType(cur.value, c.preds[1], c.producer))
    [] c.op = "isAny" ->
         (CASE cur.tag = "initial" -> when_isAny(cur.value, c.preds, c.producer)
            [] cur.tag = "unmatched" -> chain_isAny(cur.value, c.preds, c.producer)
            [] cur.tag = "matched" -> match_isAny(cur.value, c.preds, c.producer))
    [] c.op = "isAll" ->
         (CASE cur.tag = "initial" -> when_isAll(cur.value, c.preds, c.producer)
            [] cur.tag = "unmatched" -> chain_isAll(cur.value, c.preds, c.producer)
            [] cur.tag = "matched" -> match_isAll(cur.value, c.preds, c.producer))

\* cursor.otherwise(fallback), on a cursor that a check returned.
ApplyOtherwise(cur, fallback) ==
  IF cur.tag = "matched" THEN match_otherwise(cur.value, fallback)
  ELSE chain_otherwise(cur.value, fallback)

\* Calling any(predicates), all(predicates) or eq(expected) on value: the
\* outcome, and the caller's predicates it called on the way.
CallAny(predicates, value) ==
  [out |-> any(predicates, value), events |-> Some(predicates, value).events]
CallAll(predicates, value) ==
  [out |-> all(predicates, value), events |-> Every(predicates, value).events]
CallEq(expected, value) ==
  [out |-> IF eq(expected, value) THEN "true" ELSE "false", events |-> <<>>]

\* cursor.is(p, producer) for a predicate p built by the library, where
\* p(cursor.value) does `call`; a matched cursor never calls p.
IsCalling(cur, call, producer) ==
  IF cur.tag = "matched" THEN match_is(cur.value, "always", producer)
  ELSE Ternary(call, producer, Undefined, cur.value)

Tagged(evs, call) == [k \in 1..Len(evs) |-> [call |-> call, ev |-> evs[k]]]

RECURSIVE RunFrom(_, _, _, _, _)
RunFrom(cur, checks, i, fallback, trace) ==
  IF i > Len(checks)
  THEN LET r == ApplyOtherwise(cur, fallback)
       IN [threw |-> r.threw, val |-> r.val, trace |-> trace \o Tagged(r.events, 0)]
  ELSE LET r == ApplyCheck(cur, checks[i])
       IN IF r.threw
          THEN [threw |-> TRUE, val |-> r.val, trace |-> trace \o Tagged(r.events, i)]
          ELSE RunFrom(r.cursor, checks, i + 1, fallback, trace \o Tagged(r.events, i))

\* when(subject).<checks>.otherwise(fallback), with at least one check.
RunChain(subj, checks, fallback) == RunFrom(when(subj), checks, 1, fallback, <<>>)

(***************************************************************************)
(* The applications of the leaf utilities and of the documented chain      *)
(* expressions: a run applies one of them, once, to inputs of its choice.  *)
(***************************************************************************)
Num(n) == JsValue("number", n, 0, FALSE)
Word(n) == JsValue("string", n, 0, FALSE)

\* exhaustive(value)
ExhaustiveInputs == {NumTwo, StrTwo, NaNValue, ObjA, Undefined, FnA, BigTen}

ApplyExhaustive ==
  \E v \in ExhaustiveInputs :
    /\ pure.fn = "none"
    /\ pure' = [fn |-> "exhaustive", args |-> <<v>>, out |-> exhaustive(v)]
    /\ UNCHANGED <<chainVars, duo, heap>>

\* gt / lt / ge / le on two numbers or two strings.
CompareNumbers == {Num(n) : n \in -1..MaxNum} \cup {NaNValue}
CompareStrings == {StrTwo, StrA, StrB}
ComparePairs == (CompareNumbers \X CompareNumbers) \cup (CompareStrings \X CompareStrings)

ApplyCompare ==
  \E f \in {"gt", "lt", "ge", "le"}, pair \in ComparePairs :
    /\ pure.fn = "none"
    /\ pure' = [fn |-> f, args |-> pair,
                out |-> CASE f = "gt" -> gt(pair[1], pair[2])
                          [] f = "lt" -> lt(pair[1], pair[2])
                          [] f = "ge" -> ge(pair[1], pair[2])
                          [] f = "le" -> le(pair[1], pair[2])]
    /\ UNCHANGED <<chainVars, duo, heap>>

\* The state machine of the README: transition(state, action).
Idle == Word(101)
Loading == Word(102)
Success == Word(103)
Failed == Word(104)
Start == Word(111)
Resolve == Word(112)
Reject == Word(113)
Reset == Word(114)
States == {Idle, Loading, Success, Failed}
Actions == {Start, Resolve, Reject, Reset}

IsValueCheck(expected, literal) == Check("isValue", <<>>, expected, literal, NoProducer)

\* when(action).isValue(...)....otherwise(() => state): an inner chain.
Inner(state, action, cases) ==
  RunChain(action, [k \in 1..Len(cases) |-> IsValueCheck(cases[k][1], cases[k][2])],
           Producer("const", state)).val

transition(state, action) ==
  RunChain(state,
           << IsValueCheck(Idle, Inner(state, action, << <<Start, Loading>> >>)),
              IsValueCheck(Loading, Inner(state, action,
                                          << <<Resolve, Success>>, <<Reject, Failed>> >>)),
              IsValueCheck(Success, Inner(state, action, << <<Reset, Idle>> >>)),
              IsValueCheck(Failed, Inner(state, action, << <<Reset, Idle>> >>)) >>,
           Producer("const", state))

ApplyTransition ==
  \E state \in States, action \in Actions :
    /\ pure.fn = "none"
    /\ pure' = [fn |-> "transition", args |-> <<state, action>>,
                out |-> transition(state, action)]
    /\ UNCHANGED <<chainVars, duo, heap>>

\* getMessage(status): an isValue check for every value of a closed set,
\* closed with otherwise(() => exhaustive(status)).
CaseValues == {NumTwo, StrTwo, StrA, BigTen}
Label(k) == Word(200 + k)
ClosedSets ==
  {cases \in UNION {[1..n -> CaseValues] : n \in 1..MaxCases} :
     \A i, j \in 1..Len(cases) : i # j => cases[i] # cases[j]}

getMessage(cases, status) ==
  RunChain(status, [k \in 1..Len(cases) |-> IsValueCheck(cases[k], Label(k))],
           Producer("exhaustive", status))

ApplyGetMessage ==
  \E cases \in ClosedSets :
    \E k \in 1..Len(cases) :
      /\ pure.fn = "none"
      /\ pure' = [fn |-> "getMessage", args |-> <<cases, k>>,
                  out |-> getMessage(cases, cases[k])]
      /\ UNCHANGED <<chainVars, duo, heap>>

\* eq / ne on values of every kind.
EqualityValues == {NumTwo, StrTwo, NaNValue, ObjA, ObjB, Undefined, StrA}

ApplyEquality ==
  \E f \in {"eq", "ne"}, e \in EqualityValues, v \in EqualityValues :
    /\ pure.fn = "none"
    /\ pure' = [fn |-> f, args |-> <<e, v>>,
                out |-> IF f = "eq" THEN eq(e, v) ELSE ne(e, v)]
    /\ UNCHANGED <<chainVars, duo, heap>>

\* between / betweenExclusive on three numbers or three strings.
RangeNumbers == CompareNumbers \cup {Num(50), Num(100), Num(101)}
RangeTriples ==
  (RangeNumbers \X RangeNumbers \X RangeNumbers)
    \cup (CompareStrings \X CompareStrings \X CompareStrings)

ApplyRange ==
  \E f \in {"between", "betweenExclusive"}, tr \in RangeTriples :
    /\ pure.fn = "none"
    /\ pure' = [fn |-> f, args |-> tr,
                out |-> IF f = "between" THEN between(tr[1], tr[2], tr[3])
                        ELSE betweenExclusive(tr[1], tr[2], tr[3])]
    /\ UNCHANGED <<chainVars, duo, heap>>

\* oneOf / noneOf on arrays of up to MaxValues values.
MemberValues == {NumTwo, StrTwo, NaNValue, ObjA}
ValueArrays == UNION {[1..n -> MemberValues] : n \in 0..MaxValues}

ApplyMembership ==
  \E f \in {"oneOf", "noneOf"}, values \in ValueArrays, v \in MemberValues \cup {ObjB} :
    /\ pure.fn = "none"
    /\ pure' = [fn |-> f, args |-> <<values, v>>,
                out |-> IF f = "oneOf" THEN oneOf(values, v) ELSE noneOf(values, v)]
    /\ UNCHANGED <<chainVars, duo, heap>>

\* all / any on arrays of up to MaxPreds predicates, the empty array included.
PredicateArrays == UNION {[1..n -> Predicates] : n \in 0..MaxPreds}

ApplyCombinator ==
  \E f \in {"all", "any"}, predicates \in PredicateArrays, v \in PredicateValues :
    /\ pure.fn = "none"
    /\ pure' = [fn |-> f, args |-> <<predicates, v>>,
                out |-> IF f = "all" THEN all(predicates, v) ELSE any(predicates, v)]
    /\ UNCHANGED <<chainVars, duo, heap>>

\* not(p)(v) and not(not(p))(v).
ApplyNot ==
  \E p \in Predicates, v \in PredicateValues, depth \in 1..2 :
    /\ pure.fn = "none"
    /\ pure' = [fn |-> "not", args |-> <<p, v, depth>>,
                out |-> IF depth = 1 THEN not(PredicateFn(p))[v]
                        ELSE not(not(PredicateFn(p)))[v]]
    /\ UNCHANGED <<chainVars, duo, heap>>

\* then(value) invoked n times, and used in
\* when(subject).is(p, then(value)).otherwise(then(other)).
ThenValues == {StrA, NumTwo, ObjA}

ApplyThen ==
  \E value \in ThenValues, other \in {StrB}, n \in 1..MaxInvocations,
     subj \in PredicateValues, p \in Predicates :
    /\ pure.fn = "none"
    /\ pure' = [fn |-> "then", args |-> <<value, n, subj, p, other>>,
                out |-> [calls |-> [k \in 1..n |-> Invoke(then(value), Undefined)],
                         chain |-> RunChain(subj,
                                     <<Check("is", <<p>>, Undefined, Undefined,
                                             then(value))>>,
                                     then(other))]]
    /\ UNCHANGED <<chainVars, duo, heap>>

\* gt / lt / ge / le of the legacy variant on two numbers or two strings.
ApplyLegacyCompare ==
  \E f \in {"legacy_gt", "legacy_lt", "legacy_ge", "legacy_le"}, pair \in ComparePairs :
    /\ pure.fn = "none"
    /\ pure' = [fn |-> f, args |-> pair,
                out |-> CASE f = "legacy_gt" -> legacy_gt(pair[1], pair[2])
                          [] f = "legacy_lt" -> legacy_lt(pair[1], pair[2])
                          [] f = "legacy_ge" -> legacy_ge(pair[1], pair[2])
                          [] f = "legacy_le" -> legacy_le(pair[1], pair[2])]
    /\ UNCHANGED <<chainVars, duo, heap>>

\* when(subject).<is / isType checks>.otherwise(fallback), as a whole.
ApplyChain ==
  \E subj \in PredicateValues, fallback \in {ThenB},
     checks \in UNION {[1..n -> {Check(op, <<p>>, Undefined, Undefined, f) :
                                   op \in {"is", "isType"}, p \in Predicates,
                                   f \in {ThenA, Boom}}] : n \in 1..MaxChecks} :
    /\ pure.fn = "none"
    /\ pure' = [fn |-> "chain", args |-> <<subj, checks, fallback>>,
                out |-> RunChain(subj, checks, fallback)]
    /\ UNCHANGED <<chainVars, duo, heap>>

\* One check with the same arguments on when(v) and on chain(v).
ApplyOnBoth ==
  \E v \in Subjects,
     c \in {Check("is", <<p>>, Undefined, Undefined, f) : p \in Predicates, f \in Producers}
             \cup {Check("isValue", <<>>, x, l, NoProducer) : x \in Expecteds, l \in Literals}
             \cup {Check("isType", <<g>>, Undefined, Undefined, f) :
                     g \in Predicates, f \in NarrowProducers}
             \cup {Check(op, ps, Undefined, Undefined, f) :
                     op \in {"isAny", "isAll"}, ps \in PredSeqs, f \in Producers} :
    /\ pure.fn = "none"
    /\ pure' = [fn |-> "check", args |-> <<v, c>>,
                out |-> [initial |-> ApplyCheck(when(v), c),
                         unmatched |-> ApplyCheck(chain(v), c)]]
    /\ UNCHANGED <<chainVars, duo, heap>>

\* The cursors a check can be called on.
CursorsOver(values) ==
  {when(v) : v \in values} \cup {chain(v) : v \in values} \cup {match(StrB)}

\* isAny(ps, f) next to is(any(ps), f), isAll(ps, f) next to is(all(ps), f).
ApplyArrayOrIs ==
  \E cur \in CursorsOver(PredicateValues), op \in {"isAny", "isAll"},
     ps \in PredicateArrays, f \in Producers :
    /\ pure.fn = "none"
    /\ pure' = [fn |-> op, args |-> <<cur, ps, f>>,
                out |-> [direct |-> ApplyCheck(cur, Check(op, ps, Undefined, Undefined, f)),
                         viaIs |-> IsCalling(cur,
                                     IF op = "isAny" THEN CallAny(ps, cur.value)
                                     ELSE CallAll(ps, cur.value), f)]]
    /\ UNCHANGED <<chainVars, duo, heap>>

\* isValue(e, r) next to is(eq(e), then(r)), each then closed by otherwise.
ApplyValueOrIs ==
  \E cur \in CursorsOver(Subjects), e \in Expecteds, r \in Literals,
     fallback \in {ThenA, Boom} :
    LET direct == ApplyCheck(cur, IsValueCheck(e, r))
        viaIs == IsCalling(cur, CallEq(e, cur.value), then(r))
    IN /\ pure.fn = "none"
       /\ pure' = [fn |-> "isValue", args |-> <<cur, e, r, fallback>>,
                   out |-> [direct |-> direct, viaIs |-> viaIs,
                            closedDirect |-> ApplyOtherwise(direct.cursor, fallback),
                            closedViaIs |-> ApplyOtherwise(viaIs.cursor, fallback)]]
       /\ UNCHANGED <<chainVars, duo, heap>>

NextPure ==
  \/ ApplyExhaustive
  \/ ApplyCompare
  \/ ApplyTransition
  \/ ApplyGetMessage
  \/ ApplyEquality
  \/ ApplyRange
  \/ ApplyMembership
  \/ ApplyCombinator
  \/ ApplyNot
  \/ ApplyThen
  \/ ApplyLegacyCompare
  \/ ApplyChain
  \/ ApplyOnBoth
  \/ ApplyArrayOrIs
  \/ ApplyValueOrIs

SpecPure == Init /\ [][NextPure]_vars

(***************************************************************************)
(* Two chain expressions evaluated by one program, their calls interleaved *)
(* in any order.  A cursor is an object literal closing over its own       *)
(* `value` (and, for match, over nothing else); the module keeps no        *)
(* variable of its own, so the receiver of a call of chain i is the cursor *)
(* chain i holds.                                                          *)
(***************************************************************************)
DuoSubjects == {NumTwo, StrTwo}
DuoChecks ==
  { Check("is", <<"isTwo">>, Undefined, Undefined, ThenA),
    Check("isValue", <<>>, StrTwo, StrB, NoProducer),
    Check("isAny", <<"isString", "boom">>, Undefined, Undefined, ThenB),
    Check("is", <<"always">>, Undefined, Undefined, Boom) }
DuoFallbacks == {ThenA, Boom}

\* A module-level cursor that every chain would share.
Receiver_Shared(i) ==
  IF duo[1].pc = "open" /\ duo[1].cursor.tag # "initial" THEN duo[1].cursor
  ELSE duo[i].cursor

Receiver(i) == duo[i].cursor

Other(i) == 3 - i

\* Chain i calls while the other chain is under way.
Mixed(i) ==
  duo[i].mixed \/ (duo[Other(i)].pc = "open" /\ duo[Other(i)].checks # <<>>)

DuoWhen(i) ==
  \E v \in DuoSubjects :
    /\ duo[i].pc = "start"
    /\ duo' = [duo EXCEPT ![i] = [@ EXCEPT !.pc = "open", !.subject = v,
                                           !.cursor = when(v)]]
    /\ UNCHANGED <<chainVars, pure, heap>>

DuoCheck(i) ==
  \E c \in DuoChecks :
    LET r == ApplyCheck(Receiver(i), c)
        n == Len(duo[i].checks) + 1
    IN /\ duo[i].pc = "open"
       /\ n <= MaxDuoChecks
       /\ duo' = [duo EXCEPT ![i] =
                    [@ EXCEPT !.checks = Append(@, c),
                              !.trace = @ \o Tagged(r.events, n),
                              !.mixed = Mixed(i),
                              !.pc = IF r.threw THEN "thrown" ELSE "open",
                              !.threw = r.threw,
                              !.val = IF r.threw THEN r.val ELSE @,
                              !.cursor = IF r.threw THEN @ ELSE r.cursor]]
       /\ UNCHANGED <<chainVars, pure, heap>>

DuoOtherwise(i) ==
  \E f \in DuoFallbacks :
    LET r == ApplyOtherwise(Receiver(i), f)
    IN /\ duo[i].pc = "open"
       /\ HasOtherwise(duo[i].cursor)
       /\ duo' = [duo EXCEPT ![i] =
                    [@ EXCEPT !.fallback = f,
                              !.trace = @ \o Tagged(r.events, 0),
                              !.mixed = Mixed(i),
                              !.pc = IF r.threw THEN "thrown" ELSE "done",
                              !.threw = r.threw,
                              !.val = r.val]]
       /\ UNCHANGED <<chainVars, pure, heap>>

NextDuo ==
  \/ \E i \in 1..2 : DuoWhen(i)
  \/ \E i \in 1..2 : DuoCheck(i)
  \/ \E i \in 1..2 : DuoOtherwise(i)

SpecDuo == Init /\ [][NextDuo]_vars

(***************************************************************************)
(* A program that keeps every cursor it was handed and calls checks and    *)
(* the terminator on any of them, in any order: reuse and branching.       *)
(* match(...) and chain(...) are arrow functions returning an object       *)
(* literal, and no method assigns to anything: a call leaves its receiver  *)
(* as it is and hands out a new object.                                    *)
(***************************************************************************)
\* A method that writes its result into the receiver and returns a copy.
Store_InPlace(objs, self, obj) ==
  Append([objs EXCEPT ![self] = [@ EXCEPT !.cursor = obj.cursor]], obj)

\* ({ is: ..., otherwise: ... }): a new object; objs[self] is not written.
Store(objs, self, obj) == Append(objs, obj)

BranchWhen ==
  \E v \in DuoSubjects :
    /\ heap.objs = <<>>
    /\ heap' = [heap EXCEPT !.subject = v,
                            !.objs = <<[cursor |-> when(v), parent |-> 0,
                                        via |-> IsValueCheck(Undefined, Undefined)]>>]
    /\ UNCHANGED <<chainVars, pure, duo>>

BranchCheck ==
  \E self \in 1..Len(heap.objs), c \in DuoChecks :
    LET r == ApplyCheck(heap.objs[self].cursor, c)
    IN /\ Len(heap.objs) < MaxObjects
       /\ heap' = IF r.threw
                  THEN [heap EXCEPT !.ret = [on |-> self, fallback |-> NoProducer,
                                             threw |-> TRUE, val |-> r.val]]
                  ELSE [heap EXCEPT !.objs = Store(@, self,
                                      [cursor |-> r.cursor, parent |-> self, via |-> c])]
       /\ UNCHANGED <<chainVars, pure, duo>>

BranchOtherwise ==
  \E self \in 1..Len(heap.objs), f \in DuoFallbacks :
    LET r == ApplyOtherwise(heap.objs[self].cursor, f)
    IN /\ HasOtherwise(heap.objs[self].cursor)
       /\ heap' = [heap EXCEPT !.ret = [on |-> self, fallback |-> f,
                                        threw |-> r.threw, val |-> r.val]]
       /\ UNCHANGED <<chainVars, pure, duo>>

NextBranch ==
  \/ BranchWhen
  \/ BranchCheck
  \/ BranchOtherwise

SpecBranch == Init /\ [][NextBranch]_vars

(***************************************************************************)
(* Properties of the chain.                                                *)
(***************************************************************************)
\* The last call was a condition check / the terminator.
LastIsCheck == last.op \in CheckOps
ChainClosed == last.op = "otherwise"
\* The last call was made on the initial or an unmatched cursor.
LastOnUnmatched == last.before.tag \in {"initial", "unmatched"}
LastOnMatched == last.before.tag = "matched"
\* The checks that come after the earliest one whose condition holds.
LaterChecks == (firstHit.idx + 1)..nchecks
InvokedSet == {invoked[k] : k \in 1..Len(invoked)}

\* C1: first-match-wins. In a closed chain where two or more checks would
\* match the subject, the final result is the result of the earliest such
\* check, and no producer of a later check has been invoked.
C1_FirstMatchWins ==
  (pc = "done" /\ hits >= 2) =>
    /\ outcome = [kind |-> "return", val |-> firstHit.gives.val]
    /\ InvokedSet \cap LaterChecks = {}

C1_Witness ==
  /\ pc = "done" /\ hits >= 2 /\ firstHit.idx = 1
  /\ firstHit.op = "isAny" /\ outcome.val = StrB

\* C2: absorbing state. A condition check called on a Matched cursor, whatever
\* its arguments, invokes no predicate and no producer, throws nothing, and
\* returns a Matched cursor carrying the same result.
C2_Absorbing ==
  [][(cursor.tag = "matched" /\ nchecks' = nchecks + 1) =>
       /\ cursor' = cursor
       /\ events' = <<>>
       /\ invoked' = invoked
       /\ pc' = "open"]_vars

C2_Witness ==
  /\ LastIsCheck /\ LastOnMatched /\ CondHolds(last, subject)
  /\ pc = "open" /\ cursor = last.before /\ last.producer = Boom

\* C3 as stated: in every closed chain exactly one producer among the checks'
\* producers and the fallback is invoked, exactly once.
C3_ExactlyOneProducer == ChainClosed => Len(invoked) = 1

\* C3 amended: in every closed chain at most one producer is invoked, at most
\* once: the producer of the first matching check, or the fallback when no
\* check matched; and none at all when the first matching check is an isValue
\* check, which carries its literal result.
C3_AtMostOneProducer ==
  ChainClosed =>
    invoked = IF firstHit.idx = 0 THEN <<0>>
              ELSE IF firstHit.op = "isValue" THEN <<>>
              ELSE <<firstHit.idx>>

C3_Witness ==
  /\ ChainClosed /\ pc = "done" /\ nchecks = 2
  /\ firstHit.op = "isValue" /\ invoked = <<>>

\* C4: when no check of the chain matches, the terminator invokes the fallback
\* exactly once and the final result is the value the fallback returned.
C4_FallbackWhenUnmatched ==
  (ChainClosed /\ hits = 0) =>
    /\ invoked = <<0>>
    /\ events = <<ProducerEvent(Undefined)>>
    /\ last.producer.kind = "const" =>
         /\ pc = "done"
         /\ outcome = [kind |-> "return", val |-> last.producer.ret]

C4_Witness ==
  /\ ChainClosed /\ hits = 0 /\ nchecks = 2 /\ pc = "done"
  /\ last.producer = ThenB /\ outcome.val = StrB

\* C5: the terminator called on a Matched cursor returns the carried result
\* and does not invoke the fallback, also when the fallback would throw.
C5_MatchedSkipsFallback ==
  (ChainClosed /\ LastOnMatched) =>
    /\ pc = "done"
    /\ outcome = [kind |-> "return", val |-> last.before.value]
    /\ events = <<>>
    /\ 0 \notin InvokedSet

C5_Witness ==
  /\ ChainClosed /\ LastOnMatched /\ last.producer = Boom
  /\ pc = "done" /\ outcome.val = last.before.value

\* C6: producer laziness. A check on an unmatched or initial cursor whose
\* condition does not hold invokes no producer and, when its condition
\* evaluated without throwing, returns an Unmatched cursor holding the subject;
\* a call invokes a producer only as a check whose condition holds on such a
\* cursor, or as the terminator on an unmatched cursor, and then once.
C6_ProducerLaziness ==
  /\ (LastIsCheck /\ LastOnUnmatched /\ ~CondHolds(last, subject)) =>
       /\ ProducerRuns(events) = 0
       /\ pc = "open" => cursor = chain(subject)
  /\ ProducerRuns(events) > 0 =>
       /\ ProducerRuns(events) = 1
       /\ \/ /\ LastIsCheck /\ LastOnUnmatched
             /\ last.op # "isValue" /\ CondHolds(last, subject)
          \/ ChainClosed /\ last.before.tag = "unmatched"

C6_Witness ==
  /\ LastIsCheck /\ last.before.tag = "unmatched" /\ ~CondHolds(last, subject)
  /\ last.producer = Boom /\ pc = "open" /\ cursor.tag = "unmatched"

\* C7: isValue on an unmatched or initial cursor matches exactly when the
\* subject strictly equals the expected value: the same type, the same
\* payload and the same identity, and not NaN; so the number 2 and the
\* string "2" do not match each other.
C7_IsValueStrictEquality ==
  (last.op = "isValue" /\ LastOnUnmatched) =>
    /\ pc = "open"
    /\ cursor.tag = "matched" <=> (subject = last.expected /\ ~subject.nan)
    /\ {subject, last.expected} = {NumTwo, StrTwo} => cursor.tag = "unmatched"

C7_Witness ==
  /\ last.op = "isValue" /\ LastOnUnmatched
  /\ subject = StrTwo /\ last.expected = NumTwo /\ cursor = chain(StrTwo)

\* C8: a matching isValue carries the literal result itself and invokes
\* nothing, also when the literal is a function; the terminator then returns
\* that literal.
C8_IsValueCarriesLiteral ==
  /\ (last.op = "isValue" /\ LastOnUnmatched /\ cursor.tag = "matched") =>
       /\ cursor = match(last.literal)
       /\ events = <<>>
       /\ invoked = <<>>
  /\ (ChainClosed /\ firstHit.op = "isValue") =>
       /\ outcome = [kind |-> "return", val |-> firstHit.gives.val]
       /\ invoked = <<>>

C8_Witness ==
  /\ last.op = "isValue" /\ last.before.tag = "unmatched"
  /\ last.literal = FnA /\ cursor = match(FnA) /\ events = <<>>

\* C9: isType on an unmatched or initial cursor matches exactly when
\* guard(subject) is true; on a match the producer is invoked once, with the
\* subject as its argument, and what it returns is the carried result.
C9_IsTypeNarrows ==
  (last.op = "isType" /\ LastOnUnmatched) =>
    LET g == PredApply(last.preds[1], subject)
        f == last.producer
    IN /\ g = "true" =>
            /\ events = <<PredEvent(1, subject), ProducerEvent(subject)>>
            /\ f.kind = "const" => pc = "open" /\ cursor = match(f.ret)
            /\ f.kind = "echo" => pc = "open" /\ cursor = match(subject)
            /\ f.kind = "throw" => pc = "thrown"
       /\ g = "false" =>
            /\ events = <<PredEvent(1, subject)>>
            /\ pc = "open" /\ cursor = chain(subject)
       /\ g = "throw" => pc = "thrown" /\ ProducerRuns(events) = 0

C9_Witness ==
  /\ last.op = "isType" /\ last.before.tag = "unmatched"
  /\ last.preds = <<"isString">> /\ last.producer = Echo
  /\ subject = StrTwo /\ cursor = match(StrTwo)

\* C10: isAll on an unmatched or initial cursor matches (runs its producer
\* and, when that returns, yields a Matched cursor) exactly when every
\* predicate of the array is true of the subject; over the empty array it
\* matches for every subject.
C10_IsAllConjunction ==
  (last.op = "isAll" /\ LastOnUnmatched) =>
    LET allTrue == \A i \in 1..Len(last.preds) :
                     PredApply(last.preds[i], subject) = "true"
    IN /\ ProducerRuns(events) = 1 <=> allTrue
       /\ pc = "open" => (cursor.tag = "matched" <=> allTrue)
       /\ (allTrue /\ last.producer.kind = "const") =>
            pc = "open" /\ cursor = match(last.producer.ret)
       /\ last.preds = <<>> => ProducerRuns(events) = 1

C10_Witness ==
  /\ last.op = "isAll" /\ last.before.tag = "unmatched" /\ last.preds = <<>>
  /\ subject = ObjB /\ cursor = match(StrA)

\* The k-th function the last call invoked threw.
EventThrew(k) ==
  IF events[k].e = "pred"
  THEN PredApply(last.preds[events[k].i], subject) = "throw"
  ELSE Invoke(last.producer, events[k].arg).threw
\* The error that function threw.
EventError(k) ==
  IF events[k].e = "pred" THEN ErrPredicate
  ELSE Invoke(last.producer, events[k].arg).val
\* Some function the last call invoked threw.
CalleeThrew == \E k \in 1..Len(events) : EventThrew(k)

\* C11: isAny on an unmatched or initial cursor matches (runs its producer
\* and, when that returns, yields a Matched cursor) exactly when some
\* predicate of the array is true of the subject and none before it throws;
\* so, when no predicate throws, exactly when at least one is true. Over the
\* empty array it never matches: the cursor stays Unmatched and nothing is
\* invoked.
C11_IsAnyDisjunction ==
  (last.op = "isAny" /\ LastOnUnmatched) =>
    LET n == Len(last.preds)
        out(i) == PredApply(last.preds[i], subject)
        reached == \E i \in 1..n : out(i) = "true" /\ \A j \in 1..(i - 1) : out(j) = "false"
        noThrow == \A i \in 1..n : out(i) # "throw"
    IN /\ ProducerRuns(events) = 1 <=> reached
       /\ pc = "open" => (cursor.tag = "matched" <=> reached)
       /\ noThrow => (ProducerRuns(events) = 1 <=> \E i \in 1..n : out(i) = "true")
       /\ (reached /\ last.producer.kind = "const") =>
            pc = "open" /\ cursor = match(last.producer.ret)
       /\ n = 0 => pc = "open" /\ cursor = chain(subject) /\ events = <<>>

C11_Witness ==
  /\ last.op = "isAny" /\ last.before.tag = "unmatched" /\ last.preds = <<>>
  /\ last.producer = Boom /\ pc = "open" /\ cursor = chain(subject)

\* C12: when a predicate, guard or producer throws during a check or the
\* terminator, the call ends there with that very error: nothing else is
\* invoked after it, no cursor and no result is produced, and a throwing
\* predicate's check does not run its producer.
C12_ErrorsPropagate ==
  \A k \in 1..Len(events) :
    EventThrew(k) =>
      /\ k = Len(events)
      /\ pc = "thrown"
      /\ outcome = [kind |-> "throw", val |-> EventError(k)]
      /\ cursor = last.before
      /\ events[k].e = "pred" => ProducerRuns(events) = 0

C12_Witness ==
  /\ pc = "thrown" /\ last.op = "isAll" /\ last.before.tag = "unmatched"
  /\ Len(events) = 2 /\ events[2].e = "pred" /\ outcome.val = ErrPredicate

\* C13: evaluation is eager and in chain order. A check on an unmatched or
\* initial cursor evaluates its predicates during the call, in array order,
\* and when its condition holds runs its producer in that same call, after
\* the predicates; the terminator evaluates no predicate and runs nothing but
\* the fallback, and nothing at all on a Matched cursor; producers are
\* invoked in the order of the calls.
C13_EagerInOrder ==
  /\ (LastIsCheck /\ LastOnUnmatched /\ last.op # "isValue") =>
       /\ last.preds # <<>> => (events # <<>> /\ events[1] = PredEvent(1, subject))
       /\ \A k \in 1..Len(events) :
            /\ events[k].e = "pred" => events[k].i = k
            /\ events[k].e = "producer" => k = Len(events)
       /\ CondHolds(last, subject) =>
            /\ events # <<>> /\ events[Len(events)].e = "producer"
            /\ invoked = <<nchecks>>
  /\ ChainClosed =>
       /\ Len(events) <= 1
       /\ \A k \in 1..Len(events) : events[k].e = "producer"
       /\ LastOnMatched => events = <<>>
  /\ \A i, j \in 1..Len(invoked) :
       i < j => (invoked[i] # 0 /\ (invoked[j] = 0 \/ invoked[i] < invoked[j]))

C13_Witness ==
  /\ last.op = "isAny" /\ last.before.tag = "unmatched" /\ pc = "open"
  /\ Len(events) = 3 /\ events[3].e = "producer" /\ invoked = <<2>>

\* C16: when(value) evaluates nothing: right after it the cursor is the
\* initial cursor holding the subject, and no predicate, guard or producer
\* has been invoked.
C16_WhenEvaluatesNothing ==
  (pc = "open" /\ nchecks = 0) =>
    /\ cursor = [tag |-> "initial", value |-> subject]
    /\ events = <<>>
    /\ invoked = <<>>
    /\ outcome.kind = "none"

C16_Witness ==
  /\ pc = "open" /\ nchecks = 0 /\ variant = "current"
  /\ subject = ObjB /\ cursor.tag = "initial" /\ events = <<>>

\* C17: the chain itself never raises and never blocks. A call throws only
\* when a caller-supplied function it invoked threw; otherwise a check returns
\* a cursor and the terminator a result; and every cursor a check returned
\* can be closed.
C17_RunsToCompletion ==
  /\ pc = "thrown" => CalleeThrew
  /\ (LastIsCheck /\ ~CalleeThrew) =>
       pc = "open" /\ cursor.tag \in {"unmatched", "matched"}
  /\ (ChainClosed /\ ~CalleeThrew) => pc = "done" /\ outcome.kind = "return"
  /\ (pc = "open" /\ nchecks > 0) => ENABLED (Otherwise \/ LegacyOtherwise)
  /\ nchecks <= MaxChecks

C17_Witness ==
  /\ pc = "done" /\ nchecks = 2 /\ variant = "legacy"
  /\ outcome.kind = "return" /\ ~CalleeThrew

\* C14: exhaustive(v) never returns normally, and the message of the error it
\* raises is "Unhandled case: " followed by the serialized v.
C14_ExhaustiveMessage ==
  pure.fn = "exhaustive" =>
    /\ pure.out.threw
    /\ pure.out.message.prefix = "Unhandled case: "
    /\ pure.out.message.text.of = pure.args[1]

C19_Transition ==
  pure.fn = "transition" =>
    LET state == pure.args[1]
        action == pure.args[2]
        next == CASE state = Idle /\ action = Start -> Loading
                  [] state = Loading /\ action = Resolve -> Success
                  [] state = Loading /\ action = Reject -> Failed
                  [] state = Success /\ action = Reset -> Idle
                  [] state = Failed /\ action = Reset -> Idle
                  [] OTHER -> state
    IN /\ ~pure.out.threw
       /\ pure.out.val = next

C19_Witness ==
  /\ pure.fn = "transition" /\ pure.args = <<Idle, Resolve>>
  /\ pure.out.val = Idle

\* C20: gt(t)(v) is v > t, lt(t)(v) is v < t, ge(t)(v) is v >= t and
\* le(t)(v) is v <= t, on two numbers or two strings; with NaN on either
\* side all four are false.
C20_ThresholdFirst ==
  pure.fn \in {"gt", "lt", "ge", "le"} =>
    LET t == pure.args[1]
        v == pure.args[2]
    IN pure.out = /\ ~t.nan /\ ~v.nan
                  /\ CASE pure.fn = "gt" -> v.v > t.v
                       [] pure.fn = "lt" -> v.v < t.v
                       [] pure.fn = "ge" -> v.v >= t.v
                       [] pure.fn = "le" -> v.v <= t.v

C20_Witness ==
  /\ pure.fn = "gt" /\ pure.args = <<Num(0), Num(1)>> /\ pure.out = TRUE

\* C18: two chains started by separate when() calls, their check and
\* terminator calls interleaved in any order: each chain that has ended
\* returned or threw the same value, and invoked the same predicates and
\* producers in the same order, as that chain run alone.
C18_ChainsIsolated ==
  \A i \in 1..2 :
    duo[i].pc \in {"done", "thrown"} =>
      LET alone == RunChain(duo[i].subject, duo[i].checks, duo[i].fallback)
      IN /\ duo[i].threw = alone.threw
         /\ duo[i].val = alone.val
         /\ duo[i].trace = alone.trace

C18_Witness ==
  /\ duo[1].pc = "done" /\ duo[2].pc = "done"
  /\ duo[1].mixed /\ duo[2].mixed
  /\ duo[1].val # duo[2].val
  /\ Len(duo[1].checks) = 2 /\ Len(duo[2].checks) = 2

\* C21: eq(e)(v) is true iff v and e are strictly equal, with no coercion
\* (eq(2)("2") is false), and ne(e)(v) is the negation of eq(e)(v).
C21_EqStrictNeNegation ==
  pure.fn \in {"eq", "ne"} =>
    LET e == pure.args[1]
        v == pure.args[2]
        same == /\ e.t = v.t
                /\ ~e.nan /\ ~v.nan
                /\ IF e.t \in {"object", "function", "error"} THEN e.ref = v.ref
                   ELSE e.v = v.v
    IN pure.out = IF pure.fn = "eq" THEN same ELSE ~same

C21_Witness ==
  /\ pure.fn = "eq" /\ pure.args = <<NumTwo, StrTwo>> /\ pure.out = FALSE

\* C22: between(min, max)(v) is true iff min <= v and v <= max, both
\* endpoints included.
C22_BetweenInclusive ==
  pure.fn = "between" =>
    LET min == pure.args[1]
        max == pure.args[2]
        v == pure.args[3]
    IN pure.out = (/\ ~min.nan /\ ~max.nan /\ ~v.nan
                   /\ min.v <= v.v /\ v.v <= max.v)

C22_Witness ==
  /\ pure.fn = "between" /\ pure.args = <<Num(0), Num(100), Num(100)>>
  /\ pure.out = TRUE

\* C23: betweenExclusive(min, max)(v) is true iff min < v and v < max, both
\* endpoints excluded; it is false for every v whenever min >= max.
C23_BetweenExclusive ==
  pure.fn = "betweenExclusive" =>
    LET min == pure.args[1]
        max == pure.args[2]
        v == pure.args[3]
    IN /\ pure.out = (/\ ~min.nan /\ ~max.nan /\ ~v.nan
                      /\ min.v < v.v /\ v.v < max.v)
       /\ (~min.nan /\ ~max.nan /\ min.v >= max.v) => pure.out = FALSE

C23_Witness ==
  /\ pure.fn = "betweenExclusive" /\ pure.args = <<Num(0), Num(100), Num(100)>>
  /\ pure.out = FALSE

\* C24 as stated: oneOf(values)(v) is true iff eq(x)(v) is true of some
\* element x of values, and noneOf(values)(v) is its negation.
C24_MembershipByEq ==
  pure.fn \in {"oneOf", "noneOf"} =>
    LET values == pure.args[1]
        v == pure.args[2]
        member == \E i \in 1..Len(values) : eq(values[i], v)
    IN pure.out = IF pure.fn = "oneOf" THEN member ELSE ~member

\* C24: oneOf(values)(v) is true iff some element of values is the same
\* value as v, where NaN is the same value as NaN and every other pair is
\* compared as eq compares it; noneOf(values)(v) is the negation of
\* oneOf(values)(v), so oneOf([]) is always false and noneOf([]) always true.
C24_MembershipSameValueZero ==
  pure.fn \in {"oneOf", "noneOf"} =>
    LET values == pure.args[1]
        v == pure.args[2]
        member == \E i \in 1..Len(values) :
                    \/ eq(values[i], v)
                    \/ (values[i].nan /\ v.nan)
    IN /\ pure.out = IF pure.fn = "oneOf" THEN member ELSE ~member
       /\ values = <<>> => pure.out = (pure.fn = "noneOf")

C24_Witness ==
  /\ pure.fn = "oneOf" /\ pure.args = <<(<<StrTwo, NaNValue>>), NaNValue>>
  /\ pure.out = TRUE

\* C25: all(predicates)(v) is the conjunction of predicate(v) over the
\* sequence: true iff every predicate is true of v, and true for every v
\* when the sequence is empty.
C25_AllConjunction ==
  pure.fn = "all" =>
    LET predicates == pure.args[1]
        v == pure.args[2]
        outcome_(i) == PredApply(predicates[i], v)
    IN /\ pure.out # "throw" =>
            (pure.out = "true" <=> \A i \in 1..Len(predicates) : outcome_(i) = "true")
       /\ (\A i \in 1..Len(predicates) : outcome_(i) # "throw") => pure.out # "throw"
       /\ predicates = <<>> => pure.out = "true"

C25_Witness ==
  /\ pure.fn = "all" /\ pure.args = <<(<<"isString", "isTwo">>), StrTwo>>
  /\ pure.out = "false"

\* C26: any(predicates)(v) is the disjunction of predicate(v) over the
\* sequence: true iff at least one predicate is true of v, and false for
\* every v when the sequence is empty.
C26_AnyDisjunction ==
  pure.fn = "any" =>
    LET predicates == pure.args[1]
        v == pure.args[2]
        outcome_(i) == PredApply(predicates[i], v)
    IN /\ pure.out # "throw" =>
            (pure.out = "true" <=> \E i \in 1..Len(predicates) : outcome_(i) = "true")
       /\ (\A i \in 1..Len(predicates) : outcome_(i) # "throw") => pure.out # "throw"
       /\ predicates = <<>> => pure.out = "false"

C26_Witness ==
  /\ pure.fn = "any" /\ pure.args = <<(<<"isTwo", "isString">>), StrTwo>>
  /\ pure.out = "true"

\* C27: not(p)(v) is the negation of p(v) for every boolean predicate p and
\* every v, and not(not(p)) agrees with p on every value.
C27_NotNegation ==
  pure.fn = "not" =>
    LET p == pure.args[1]
        v == pure.args[2]
        depth == pure.args[3]
        pv == PredApply(p, v)
    IN pv \in {"true", "false"} =>
         /\ pure.out \in {"true", "false"}
         /\ depth = 1 => (pure.out = "true" <=> pv = "false")
         /\ depth = 2 => pure.out = pv

C27_Witness ==
  /\ pure.fn = "not" /\ pure.args = <<"isString", NumTwo, 1>> /\ pure.out = "true"

\* C28: then(value) is a nullary producer that returns exactly value each
\* time it is invoked; as the producer of a check that matches, or as the
\* fallback of a chain that did not match, it makes the chain return its value.
C28_ThenConstant ==
  pure.fn = "then" =>
    LET value == pure.args[1]
        n == pure.args[2]
        subj == pure.args[3]
        pv == PredApply(pure.args[4], subj)
        other == pure.args[5]
    IN /\ Len(pure.out.calls) = n
       /\ \A k \in 1..n : pure.out.calls[k] = [threw |-> FALSE, val |-> value]
       /\ pv = "true" => ~pure.out.chain.threw /\ pure.out.chain.val = value
       /\ pv = "false" => ~pure.out.chain.threw /\ pure.out.chain.val = other

C28_Witness ==
  /\ pure.fn = "then" /\ pure.args[1] = ObjA /\ pure.args[2] = 2
  /\ pure.args[3] = NumTwo /\ pure.args[4] = "isTwo"
  /\ pure.out.chain.val = ObjA

\* C29: Unmatched invariant. While no check so far has matched, the cursor
\* is Unmatched and carries the subject handed to when(); no call returns an
\* Unmatched cursor after a match; and every predicate, guard and
\* type-narrowing producer that a call on an initial or Unmatched cursor
\* invokes is given that subject.
C29_UnmatchedCarriesSubject ==
  /\ (pc = "open" /\ nchecks >= 1 /\ hits = 0) =>
        cursor.tag = "unmatched" /\ cursor.value = subject
  /\ cursor.tag \in {"initial", "unmatched"} => cursor.value = subject
  /\ (pc = "open" /\ cursor.tag \in {"initial", "unmatched"}) => hits = 0
  /\ (last.op # "none" /\ last.before.tag \in {"initial", "unmatched"}) =>
        /\ last.before.value = subject
        /\ \A k \in 1..Len(events) :
             /\ events[k].e = "pred" => events[k].arg = subject
             /\ (events[k].e = "producer" /\ last.op = "isType") =>
                  events[k].arg = subject

C29_Witness ==
  /\ pc = "open" /\ nchecks = 2 /\ hits = 0 /\ subject = ObjB
  /\ last.op = "isType" /\ last.before = [tag |-> "unmatched", value |-> ObjB]
  /\ cursor = [tag |-> "unmatched", value |-> ObjB]
  /\ events = <<PredEvent(1, ObjB)>>

\* C30: Matched invariant. From the first match on, and through every later
\* check, the cursor is Matched and carries what the first matching check
\* produced; the terminator returns that result.
C30_MatchedCarriesFirstResult ==
  /\ cursor.tag = "matched" =>
        /\ firstHit.idx >= 1 /\ ~firstHit.gives.threw
        /\ cursor.value = firstHit.gives.val
  /\ (pc = "open" /\ firstHit.idx >= 1) => cursor.tag = "matched"
  /\ (pc = "done" /\ firstHit.idx >= 1) =>
        outcome = [kind |-> "return", val |-> firstHit.gives.val]

C30_Witness ==
  /\ pc = "done" /\ nchecks = 2 /\ firstHit.idx = 1 /\ firstHit.op = "isType"
  /\ last.before = [tag |-> "matched", value |-> StrTwo]
  /\ subject = StrTwo /\ outcome.val = StrTwo /\ last.producer = ThenB

\* C34: in the legacy variant gt(a)(b) is a > b, lt(a)(b) is a < b, ge(a)(b)
\* is a >= b and le(a)(b) is a <= b: the first argument is compared against
\* the second, so each gives what the current library's factory gives with
\* the two arguments exchanged.
C34_LegacyFirstAgainstSecond ==
  pure.fn \in {"legacy_gt", "legacy_lt", "legacy_ge", "legacy_le"} =>
    LET a == pure.args[1]
        b == pure.args[2]
    IN /\ pure.out = /\ ~a.nan /\ ~b.nan
                     /\ CASE pure.fn = "legacy_gt" -> a.v > b.v
                          [] pure.fn = "legacy_lt" -> a.v < b.v
                          [] pure.fn = "legacy_ge" -> a.v >= b.v
                          [] pure.fn = "legacy_le" -> a.v <= b.v
       /\ pure.out = CASE pure.fn = "legacy_gt" -> gt(b, a)
                       [] pure.fn = "legacy_lt" -> lt(b, a)
                       [] pure.fn = "legacy_ge" -> ge(b, a)
                       [] pure.fn = "legacy_le" -> le(b, a)

C34_Witness ==
  /\ pure.fn = "legacy_gt" /\ pure.args = <<Num(2), Num(1)>> /\ pure.out = TRUE

\* C32: one isAny check on an initial or unmatched cursor calls the
\* predicates of its array in array order and stops after the first that
\* returns true; one isAll check stops after the first that returns false.
\* The predicates behind the stopping point are not called.
C32_ShortCircuit ==
  (last.op \in {"isAny", "isAll"} /\ LastOnUnmatched) =>
    LET n == Len(last.preds)
        goesOn == IF last.op = "isAny" THEN "false" ELSE "true"
        stops == {i \in 1..n : PredApply(last.preds[i], subject) # goesOn}
        reached == IF stops = {} THEN n
                   ELSE CHOOSE i \in stops : \A j \in stops : i <= j
        called == SelectSeq(events, LAMBDA ev : ev.e = "pred")
    IN /\ Len(called) = reached
       /\ \A k \in 1..reached : called[k] = [e |-> "pred", i |-> k, arg |-> subject]

C32_Witness ==
  /\ last.op = "isAny" /\ last.before.tag = "unmatched"
  /\ last.preds = <<"isString", "boom">> /\ subject = StrTwo
  /\ Len(events) = 2 /\ events[2].e = "producer" /\ pc = "open"

\* C31: in a chain of is / isType checks, every check up to and including
\* the first whose predicate (or guard) does not return false calls it once,
\* on the subject, and every check after that one calls nothing; so k
\* predicates are evaluated when the k-th check is the first to match, and
\* one per check when none matches.
C31_PredicateEvaluations ==
  pure.fn = "chain" =>
    LET subj == pure.args[1]
        checks == pure.args[2]
        n == Len(checks)
        trace == pure.out.trace
        ends == {i \in 1..n : PredApply(checks[i].preds[1], subj) # "false"}
        k == IF ends = {} THEN n ELSE CHOOSE i \in ends : \A j \in ends : i <= j
        calls(i) == {x \in 1..Len(trace) : trace[x].call = i /\ trace[x].ev.e = "pred"}
    IN /\ \A i \in 1..k :
            /\ Cardinality(calls(i)) = 1
            /\ \A x \in calls(i) : trace[x].ev.arg = subj
       /\ \A i \in (k + 1)..n : calls(i) = {}
       /\ Cardinality({x \in 1..Len(trace) : trace[x].ev.e = "pred"}) = k

C31_Witness ==
  /\ pure.fn = "chain" /\ pure.args[1] = StrTwo /\ Len(pure.args[2]) = 2
  /\ pure.args[2][1].preds = <<"isString">> /\ pure.args[2][1].producer = ThenA
  /\ pure.args[2][2].preds = <<"boom">>
  /\ ~pure.out.threw /\ pure.out.val = StrA

\* C33: each of is, isValue, isType, isAny and isAll, with the same
\* arguments, does the same on the initial cursor of when(v) as on an
\* Unmatched cursor holding v: the same cursor comes back (Matched with the
\* same result, or Unmatched with v) or the same error is thrown, after the
\* same predicate and producer invocations.
C33_InitialAsUnmatched ==
  pure.fn = "check" =>
    LET v == pure.args[1]
        a == pure.out.initial
        b == pure.out.unmatched
    IN /\ a.threw = b.threw /\ a.val = b.val
       /\ a.cursor = b.cursor
       /\ a.events = b.events
       /\ ~a.threw => \/ a.cursor.tag = "matched"
                      \/ a.cursor = [tag |-> "unmatched", value |-> v]

C33_Witness ==
  /\ pure.fn = "check" /\ pure.args[1] = NumTwo /\ pure.args[2].op = "isAll"
  /\ pure.args[2].preds = <<"isTwo", "isString">>
  /\ pure.out.initial.cursor = [tag |-> "unmatched", value |-> NumTwo]
  /\ Len(pure.out.unmatched.events) = 2

\* C37: on the same cursor isAny(ps, f) does what is(any(ps), f) does, and
\* isAll(ps, f) what is(all(ps), f) does: the same cursor with the same
\* carried result comes back (or the same error is thrown), f is invoked as
\* often, and the same predicates of ps are called in the same order.
C37_ArrayChecksAsIs ==
  pure.fn \in {"isAny", "isAll"} =>
    /\ pure.out.direct.threw = pure.out.viaIs.threw
    /\ pure.out.direct.val = pure.out.viaIs.val
    /\ pure.out.direct.cursor = pure.out.viaIs.cursor
    /\ pure.out.direct.events = pure.out.viaIs.events

C37_Witness ==
  /\ pure.fn = "isAll" /\ pure.args[1] = [tag |-> "unmatched", value |-> NumTwo]
  /\ pure.args[2] = <<>> /\ pure.args[3] = ThenA
  /\ pure.out.viaIs.cursor = [tag |-> "matched", value |-> StrA]

\* C38: on the same cursor isValue(e, r) and is(eq(e), then(r)) return the
\* same cursor, neither throws, and otherwise(fallback) called on the two
\* returned cursors gives the same result.
C38_IsValueAsIsEqThen ==
  pure.fn = "isValue" =>
    /\ ~pure.out.direct.threw /\ ~pure.out.viaIs.threw
    /\ pure.out.direct.cursor = pure.out.viaIs.cursor
    /\ pure.out.closedDirect.threw = pure.out.closedViaIs.threw
    /\ pure.out.closedDirect.val = pure.out.closedViaIs.val

C38_Witness ==
  /\ pure.fn = "isValue" /\ pure.args[1] = [tag |-> "unmatched", value |-> NaNValue]
  /\ pure.args[2] = NaNValue /\ pure.args[4] = ThenA
  /\ pure.out.viaIs.cursor.tag = "unmatched" /\ pure.out.closedViaIs.val = StrA

\* C39: no chain is closed before a check was called. The initial cursor
\* offers the checks and no terminator; the Matched or Unmatched cursor that
\* a check returned offers the terminator.
C39_NoTerminatorBeforeCheck ==
  /\ ChainClosed => nchecks >= 1 /\ last.before.tag \in {"unmatched", "matched"}
  /\ (pc = "open" /\ nchecks = 0) =>
        /\ cursor.tag = "initial"
        /\ ~ENABLED (Otherwise \/ LegacyOtherwise)
        /\ ENABLED (Is \/ IsValue \/ IsType \/ IsAny \/ IsAll \/ On)
  /\ (pc = "open" /\ nchecks >= 1) =>
        /\ cursor.tag \in {"unmatched", "matched"}
        /\ ENABLED (Otherwise \/ LegacyOtherwise)

C39_Witness ==
  /\ ChainClosed /\ nchecks = 1 /\ variant = "legacy"
  /\ last.before.tag = "matched" /\ pc = "done"

RECURSIVE PathCursor(_)
PathCursor(o) ==
  IF heap.objs[o].parent = 0 THEN [tag |-> "initial", value |-> heap.subject]
  ELSE ApplyCheck(PathCursor(heap.objs[o].parent), heap.objs[o].via).cursor

\* C35: cursors are immutable. Whatever checks and terminators have been
\* called on it and on other cursors, every cursor is as the calls that built
\* it left it (the initial cursor initial, an Unmatched one Unmatched with
\* the subject, a Matched one with its result); a check hands out a new
\* cursor, never its receiver; and the terminator returns what it returns on
\* a cursor that was never used before.
C35_CursorsImmutable ==
  /\ \A o \in 1..Len(heap.objs) :
       /\ heap.objs[o].cursor = PathCursor(o)
       /\ heap.objs[o].parent < o
       /\ heap.objs[o].cursor.tag = "unmatched" => heap.objs[o].cursor.value = heap.subject
  /\ (heap.ret.on # 0 /\ heap.ret.fallback # NoProducer) =>
       LET alone == ApplyOtherwise(PathCursor(heap.ret.on), heap.ret.fallback)
       IN heap.ret.threw = alone.threw /\ heap.ret.val = alone.val

C35_Witness ==
  /\ Len(heap.objs) = 3 /\ heap.objs[2].parent = 1 /\ heap.objs[3].parent = 1
  /\ heap.objs[1].cursor.tag = "initial"
  /\ heap.objs[2].cursor.tag = "matched" /\ heap.objs[3].cursor.tag = "unmatched"
  /\ heap.ret.on = 2 /\ ~heap.ret.threw /\ heap.ret.val = heap.objs[2].cursor.value

====
